---------------------------- MODULE Spec2Model ----------------------------
(***************************************************************************)
(* Model of cloudwatch-metrics-client: the aggregation store (counter and *)
(* statistic series keyed by metric fingerprint), the blocking            *)
(* (CloudWatchSyncMetricReporter) and non-blocking                         *)
(* (CloudWatchAsyncMetricReporter) reporters with their periodic loop,     *)
(* stop(), flush() and the chunked drain-and-transmit cycle.               *)
(***************************************************************************)
EXTENDS Integers, Sequences, FiniteSets, TLC

(***************************************************************************)
(* Program constant and model bounds                                       *)
(***************************************************************************)
\* CloudWatch*MetricReporter.MAX_METRICS_PER_REPORT
MAX_METRICS_PER_REPORT == 20
\* the default of report_interval, in seconds
DefaultInterval == 30

\* recording calls made in one behaviour of Spec (loop + stop + flush)
MaxPuts == 2
\* flush() calls made in one behaviour
MaxFlushes == 1
\* stop() calls made in one behaviour
MaxStops == 1
\* recording calls made in one behaviour of SpecStore (recordings + flush only)
MaxRecordings == 4
\* flush() calls made in one behaviour of SpecStore
MaxStoreFlushes == 1
\* largest number of counter series pre-recorded in SpecBatch
MaxBatchCounters == 41
\* largest number of statistic series pre-recorded in SpecBatch
MaxBatchStatistics == 2
\* SpecTask: calls of a wrapped function, and calls of with_monitored_dimension
MaxTasks == 3
MaxTaskDimensions == 2
\* SpecFacade: recording calls made through the facade
MaxFacadeCalls == 3
\* SpecInterval: calls of run() on a reporter without interval
MaxRuns == 2
\* SpecNamespace: calls of with_namespace, and of flush()
MaxNamespaces == 2
MaxNamespaceFlushes == 2

(***************************************************************************)
(* Python values                                                           *)
(***************************************************************************)
\* Python's None where a string is expected (unit)
None == "None"
\* dimensions=None
NoDimensions == [present |-> FALSE, pairs |-> <<>>]
\* dimensions given as an (insertion-ordered) dict of tag name -> tag value
Dims(pairs) == [present |-> TRUE, pairs |-> pairs]
\* report_interval=None
NoInterval == [present |-> FALSE, seconds |-> 0]
\* report_interval given as a number of seconds
Seconds(seconds) == [present |-> TRUE, seconds |-> seconds]
\* bool(value) of an interval where 0 alone is false
TruthyNotNone(value) == value.present
\* bool(value) of an interval: None and 0 are false
Truthy(value) == value.present /\ value.seconds # 0
\* the value None returned by to_repr (a dict repr always has MetricName)
NoRepr == [x \in {} |-> x]

RECURSIVE Join(_, _)
\* sep.join(strs)
Join(sep, strs) ==
    IF Len(strs) = 0 THEN ""
    ELSE IF Len(strs) = 1 THEN strs[1]
    ELSE strs[1] \o sep \o Join(sep, Tail(strs))

RECURSIVE SumSeq(_)
\* sum(list)
SumSeq(s) == IF Len(s) = 0 THEN 0 ELSE s[1] + SumSeq(Tail(s))

RECURSIVE MinSeq(_)
\* min(list), list non-empty
MinSeq(s) ==
    IF Len(s) = 1 THEN s[1]
    ELSE LET m == MinSeq(Tail(s)) IN IF s[1] <= m THEN s[1] ELSE m

RECURSIVE MaxSeq(_)
\* max(list), list non-empty
MaxSeq(s) ==
    IF Len(s) = 1 THEN s[1]
    ELSE LET m == MaxSeq(Tail(s)) IN IF s[1] >= m THEN s[1] ELSE m

\* math.ceil(a / b) for a >= 0, b > 0
Ceil(a, b) == IF a % b = 0 THEN a \div b ELSE (a \div b) + 1

\* list(filter(None.__ne__, reprs))
FilterNone(reprs) == SelectSeq(reprs, LAMBDA r : r # NoRepr)

(***************************************************************************)
(* MetricDimension, Metric                                                 *)
(***************************************************************************)
\* MetricDimension.generate_id
MetricDimension_generate_id(dimensions) ==
    IF dimensions.present
    THEN Join("&", [i \in 1..Len(dimensions.pairs) |->
                      dimensions.pairs[i][1] \o "=" \o dimensions.pairs[i][2]])
    ELSE ""

\* MetricDimension.to_repr; NoRepr stands for None
MetricDimension_to_repr(dimensions) ==
    IF ~dimensions.present THEN NoRepr
    ELSE [i \in 1..Len(dimensions.pairs) |->
            [Name |-> dimensions.pairs[i][1], Value |-> dimensions.pairs[i][2]]]

\* Metric.generate_id
Metric_generate_id(name, dimensions) ==
    name \o "?" \o MetricDimension_generate_id(dimensions)

\* Metric.to_repr (Timestamp, the wall clock at the call, is left out)
Metric_to_repr(metric) ==
    LET data == ("MetricName" :> metric.name) @@ ("Value" :> metric.value)
        withDims == IF metric.dimensions.present
                    THEN data @@ ("Dimensions" :> MetricDimension_to_repr(metric.dimensions))
                    ELSE data
    IN  IF metric.unit # None THEN withDims @@ ("Unit" :> metric.unit) ELSE withDims

\* del data[key]
DelKey(data, key) == [k \in (DOMAIN data) \ {key} |-> data[k]]

(***************************************************************************)
(* MetricSeries, StatisticSeries                                           *)
(***************************************************************************)
\* MetricSeries.__init__: value is an insertion-ordered dict value -> count,
\* kept as a sequence of <<value, count>>
MetricSeries(name, dimensions, unit) ==
    [name |-> name, dimensions |-> dimensions, unit |-> unit, value |-> <<>>,
     metric_id |-> Metric_generate_id(name, dimensions)]

\* StatisticSeries.__init__: value is the list of samples
StatisticSeries(name, dimensions, unit) ==
    [name |-> name, dimensions |-> dimensions, unit |-> unit, value |-> <<>>,
     metric_id |-> Metric_generate_id(name, dimensions)]

\* position of key in an insertion-ordered dict kept as <<key, item>> pairs, 0 if absent
KeyIndex(dict, key) ==
    IF \E i \in 1..Len(dict) : dict[i][1] = key
    THEN CHOOSE i \in 1..Len(dict) : dict[i][1] = key
    ELSE 0

\* MetricSeries.add_value
MetricSeries_add_value(series, value) ==
    LET values == series.value
        i == KeyIndex(values, value)
        count == (IF i = 0 THEN 0 ELSE values[i][2]) + 1
    IN  [series EXCEPT !.value =
            IF i = 0 THEN Append(values, <<value, count>>)
            ELSE [values EXCEPT ![i] = <<value, count>>]]

\* StatisticSeries.add_value
StatisticSeries_add_value(series, value) ==
    [series EXCEPT !.value = Append(series.value, value)]

\* MetricSeries.to_repr
MetricSeries_to_repr(series) ==
    LET data == DelKey(Metric_to_repr(series), "Value")
    IN  data @@ ("Values" :> [i \in 1..Len(series.value) |-> series.value[i][1]])
             @@ ("Counts" :> [i \in 1..Len(series.value) |-> series.value[i][2]])

\* StatisticSeries.to_repr without its `len(self.metric.value) == 0` test: an
\* empty series is emitted with zeros
StatisticSeries_to_repr_zeros(series) ==
    DelKey(Metric_to_repr(series), "Value")
    @@ ("StatisticValues" :>
           [SampleCount |-> Len(series.value),
            Sum |-> SumSeq(series.value),
            Minimum |-> IF Len(series.value) = 0 THEN 0 ELSE MinSeq(series.value),
            Maximum |-> IF Len(series.value) = 0 THEN 0 ELSE MaxSeq(series.value)])

\* StatisticSeries.to_repr
StatisticSeries_to_repr(series) ==
    IF Len(series.value) = 0 THEN NoRepr
    ELSE DelKey(Metric_to_repr(series), "Value")
         @@ ("StatisticValues" :>
                [SampleCount |-> Len(series.value),
                 Sum |-> SumSeq(series.value),
                 Minimum |-> MinSeq(series.value),
                 Maximum |-> MaxSeq(series.value)])

(***************************************************************************)
(* Reporter state                                                          *)
(***************************************************************************)
VARIABLES
    mode,        \* "sync": CloudWatchSyncMetricReporter, "async": CloudWatchAsyncMetricReporter
    metrics,     \* self.metrics: insertion-ordered dict metric_id -> MetricSeries
    statistics,  \* self.statistics: insertion-ordered dict metric_id -> StatisticSeries
    lock,        \* self.lock: "free" or the caller of _report holding it
    stopped,     \* self.stopped
    timer,       \* sync self.timer: "none", or the flag of the current Event
    sleep_task,  \* async self.sleep_task: "none", "pending", "done", "cancelled"
    pc,          \* position of the report loop, of flush(), stop() and the recording call
    w,           \* sync: value returned by self.timer.wait(...)
    metric_data, \* _report: the drained record list of the current cycle
    n,           \* _report: index of the next chunk
    sent,        \* the transport's put_metric_data calls, in call order
    sentBase,    \* number of transport calls made before the current cycle's drain
    recorded,    \* recording calls completed since the last drain, in order
    left,        \* calls the environment may still make: puts, flushes, stops
    report_interval, \* self.report_interval
    waited,      \* whether a wait of the periodic loop has run to its timeout
    facade,      \* the facade class: its attributes, and what its last recording call gave its caller
    stopAt       \* whether stop() was invoked on a running loop, or during its wait, and the loop's calls then

vars == <<mode, report_interval, waited, facade, metrics, statistics, lock, stopped, timer, sleep_task, pc, w,
          metric_data, n, sent, sentBase, recorded, left, stopAt>>

Callers == {"loop", "flush"}
Modes == {"sync", "async"}

\* inputs of the recording calls in Spec
Names == {"a", "b"}
Values == {1}
\* inputs of the recording calls in SpecStore
WideNames == {"x"}
WideDimensions == {NoDimensions, Dims(<<<<"d", "1">>>>)}
WideValues == {5, 9}

\* the class attribute `namespace` is not in the __dict__ of the subclass
\* CloudWatchSyncMetrics: a read of it gives the attribute of its base class
Inherited == "inherited"

\* the namespace attributes as the classes declare them: namespace = None in
\* CloudWatchAsyncMetrics, nothing in CloudWatchSyncMetrics(CloudWatchAsyncMetrics)
NamespaceDeclared == [CloudWatchAsyncMetrics |-> None, CloudWatchSyncMetrics |-> Inherited]

\* the facade class used with the reporter of the mode
FacadeClass(m) == IF m = "sync" THEN "CloudWatchSyncMetrics" ELSE "CloudWatchAsyncMetrics"

\* cls.namespace = namespace
SetNamespace(attributes, cls, namespace) == [attributes EXCEPT ![cls] = namespace]

\* cls.namespace read through the class: its own attribute, or its base's
GetNamespace(attributes, cls) ==
    IF attributes[cls] = Inherited THEN attributes.CloudWatchAsyncMetrics
    ELSE attributes[cls]

\* the class attributes of CloudWatch*Metrics after
\* with_namespace('test_namespace').with_reporter(reporter) on the facade of
\* the mode: no ambient dimensions, no timed operation running (task, and the
\* value it records), no recording call made
WithReporter ==
    facade = [reporter |-> TRUE, dimensions |-> NoDimensions,
              previous_dimensions |-> NoDimensions, task |-> "idle",
              elapsed |-> 0, value |-> 0, returned |-> "none",
              namespace |-> SetNamespace(NamespaceDeclared, FacadeClass(mode),
                                         "test_namespace")]

\* CloudWatch*MetricReporter.__init__
InitReporter ==
    /\ report_interval = Seconds(DefaultInterval)
    /\ waited = FALSE
    /\ metrics = <<>>
    /\ statistics = <<>>
    /\ lock = "free"
    /\ stopped = FALSE
    /\ timer = "none"
    /\ sleep_task = "none"
    /\ pc = [loop |-> "idle", flush |-> "idle", stop |-> "idle", rec |-> "idle"]
    /\ w = FALSE
    /\ metric_data = <<>>
    /\ n = 0
    /\ sent = <<>>
    /\ sentBase = 0
    /\ recorded = <<>>
    /\ stopAt = [running |-> FALSE, waiting |-> FALSE, calls |-> 0]

Init ==
    /\ mode \in Modes
    /\ WithReporter
    /\ InitReporter
    /\ left = [puts |-> MaxPuts, flushes |-> MaxFlushes, stops |-> MaxStops]

(***************************************************************************)
(* Recording calls                                                         *)
(***************************************************************************)
\* dict.get(metric_id) on an insertion-ordered dict kept as a sequence of
\* series: the position of the series, 0 for None
SeriesIndex(dict, metric_id) ==
    KeyIndex([i \in 1..Len(dict) |-> <<dict[i].metric_id, i>>], metric_id)

\* `if metric is None: self.metrics[metric_id] = <fresh series>`
GetOrCreate(dict, fresh) ==
    IF SeriesIndex(dict, fresh.metric_id) = 0 THEN Append(dict, fresh) ELSE dict

\* a caller enters put_metric / put_statistic and reaches `with self.lock`
PutCall ==
    /\ pc.rec = "idle"
    /\ left.puts > 0
    /\ left' = [left EXCEPT !.puts = @ - 1]
    /\ pc' = [pc EXCEPT !.rec = "waiting"]
    /\ UNCHANGED <<mode, report_interval, waited, facade, stopAt, metrics, statistics, lock, stopped, timer, sleep_task, w,
                   metric_data, n, sent, sentBase, recorded>>

\* CloudWatch*MetricReporter.put_metric: the body under the lock, then return True
put_metric(name, dimensions, value, unit) ==
    /\ pc.rec = "waiting"
    /\ lock = "free"
    /\ LET dict == GetOrCreate(metrics, MetricSeries(name, dimensions, unit))
           i == SeriesIndex(dict, Metric_generate_id(name, dimensions))
       IN  metrics' = [dict EXCEPT ![i] = MetricSeries_add_value(dict[i], value)]
    /\ recorded' = Append(recorded, [kind |-> "metric", name |-> name,
                                     dimensions |-> dimensions, value |-> value])
    /\ pc' = [pc EXCEPT !.rec = "idle"]
    /\ facade' = [facade EXCEPT !.returned = "True"]
    /\ UNCHANGED <<mode, report_interval, waited, stopAt, statistics, lock, stopped, timer, sleep_task, w,
                   metric_data, n, sent, sentBase, left>>

\* put_statistic without `with self.lock`
put_statistic_unlocked(name, dimensions, value, unit) ==
    /\ pc.rec = "waiting"
    /\ LET dict == GetOrCreate(statistics, StatisticSeries(name, dimensions, unit))
           i == SeriesIndex(dict, Metric_generate_id(name, dimensions))
       IN  statistics' = [dict EXCEPT ![i] = StatisticSeries_add_value(dict[i], value)]
    /\ recorded' = Append(recorded, [kind |-> "statistic", name |-> name,
                                     dimensions |-> dimensions, value |-> value])
    /\ pc' = [pc EXCEPT !.rec = "idle"]
    /\ facade' = [facade EXCEPT !.returned = "True"]
    /\ UNCHANGED <<mode, report_interval, waited, stopAt, metrics, lock, stopped, timer, sleep_task, w,
                   metric_data, n, sent, sentBase, left>>

\* CloudWatch*MetricReporter.put_statistic: the body under the lock, then return True
put_statistic(name, dimensions, value, unit) ==
    /\ pc.rec = "waiting"
    /\ lock = "free"
    /\ LET dict == GetOrCreate(statistics, StatisticSeries(name, dimensions, unit))
           i == SeriesIndex(dict, Metric_generate_id(name, dimensions))
       IN  statistics' = [dict EXCEPT ![i] = StatisticSeries_add_value(dict[i], value)]
    /\ recorded' = Append(recorded, [kind |-> "statistic", name |-> name,
                                     dimensions |-> dimensions, value |-> value])
    /\ pc' = [pc EXCEPT !.rec = "idle"]
    /\ facade' = [facade EXCEPT !.returned = "True"]
    /\ UNCHANGED <<mode, report_interval, waited, stopAt, metrics, lock, stopped, timer, sleep_task, w,
                   metric_data, n, sent, sentBase, left>>

(***************************************************************************)
(* _report: drain, chunk, send                                             *)
(***************************************************************************)
\* _calculate_metrics: the records of the counter series
_calculate_metrics ==
    FilterNone([i \in 1..Len(metrics) |-> MetricSeries_to_repr(metrics[i])])

\* _calculate_statistics: the records of the statistic series
_calculate_statistics ==
    FilterNone([i \in 1..Len(statistics) |-> StatisticSeries_to_repr(statistics[i])])

\* _calculate_metrics without its `self.metrics = {}`
MetricsKept == metrics

\* self.metrics after _calculate_metrics
MetricsAfterDrain == <<>>

\* _calculate_statistics without its `self.statistics = {}`
StatisticsKept == statistics

\* self.statistics after _calculate_statistics
StatisticsAfterDrain == <<>>

\* NumChunks with the division rounded down: the last, partial chunk is lost
NumChunksFloor(data) == Len(data) \div MAX_METRICS_PER_REPORT

\* range(math.ceil(len(metric_data) / MAX_METRICS_PER_REPORT))
NumChunks(data) == Ceil(Len(data), MAX_METRICS_PER_REPORT)

\* metric_data[n * MAX : (n + 1) * MAX]
Chunk(data, k) ==
    LET lo == k * MAX_METRICS_PER_REPORT + 1
        hi == IF (k + 1) * MAX_METRICS_PER_REPORT < Len(data)
              THEN (k + 1) * MAX_METRICS_PER_REPORT ELSE Len(data)
    IN  SubSeq(data, lo, hi)

\* Drain of a _report that computes _calculate_statistics() + _calculate_metrics()
DrainStatisticsFirst(who) ==
    LET data == _calculate_statistics \o _calculate_metrics IN
    /\ lock' = who
    /\ metric_data' = data
    /\ metrics' = MetricsAfterDrain
    /\ statistics' = StatisticsAfterDrain
    /\ n' = 0
    /\ sentBase' = Len(sent)
    /\ recorded' = <<>>
    /\ pc' = [pc EXCEPT ![who] = IF NumChunks(data) > 0 THEN "send" ELSE "done"]

\* _report from `with self.lock` acquired to the first chunk: who holds the lock,
\* both maps are reduced and reset
Drain(who) ==
    LET data == _calculate_metrics \o _calculate_statistics IN
    /\ lock' = who
    /\ metric_data' = data
    /\ metrics' = MetricsAfterDrain
    /\ statistics' = StatisticsAfterDrain
    /\ n' = 0
    /\ sentBase' = Len(sent)
    /\ recorded' = <<>>
    /\ pc' = [pc EXCEPT ![who] = IF NumChunks(data) > 0 THEN "send" ELSE "done"]

\* _report blocked on the lock gets it
ReportAcquire(who) ==
    /\ pc[who] = "acquire"
    /\ lock = "free"
    /\ Drain(who)
    /\ UNCHANGED <<mode, report_interval, waited, facade, stopAt, stopped, timer, sleep_task, w, sent, left>>

\* client.put_metric_data(Namespace=CloudWatchAsyncMetrics.namespace,
\* MetricData=chunk n) is called, by either reporter
SendCall(who) ==
    /\ pc[who] = "send"
    /\ sent' = Append(sent, [by |-> who, batch |-> Chunk(metric_data, n),
                             status |-> "pending",
                             Namespace |-> facade.namespace.CloudWatchAsyncMetrics])
    /\ pc' = [pc EXCEPT ![who] = "sending"]
    /\ UNCHANGED <<mode, report_interval, waited, facade, stopAt, metrics, statistics, lock, stopped, timer, sleep_task, w,
                   metric_data, n, sentBase, recorded, left>>

\* pc after chunk k has been answered: the next chunk, or the end of the for loop
AfterChunk(k) == IF k + 1 < NumChunks(metric_data) THEN "send" ELSE "done"

\* SendReturn of a _report that sends a chunk again when its status is not 200
SendReturnRetry(who, status) ==
    /\ pc[who] = "sending"
    /\ sent' = [sent EXCEPT ![Len(sent)].status = status]
    /\ n' = IF status = "fail" THEN n ELSE n + 1
    /\ pc' = [pc EXCEPT ![who] = IF status = "fail" THEN "send" ELSE AfterChunk(n)]
    /\ UNCHANGED <<mode, report_interval, waited, facade, stopAt, metrics, statistics, lock, stopped, timer, sleep_task, w,
                   metric_data, sentBase, recorded, left>>

\* put_metric_data returns a response: HTTPStatusCode 200 ("ok"), or anything
\* else ("fail": a warning is logged); the for loop goes on
SendReturn(who, status) ==
    /\ pc[who] = "sending"
    /\ sent' = [sent EXCEPT ![Len(sent)].status = status]
    /\ n' = n + 1
    /\ pc' = [pc EXCEPT ![who] = AfterChunk(n)]
    /\ UNCHANGED <<mode, report_interval, waited, facade, stopAt, metrics, statistics, lock, stopped, timer, sleep_task, w,
                   metric_data, sentBase, recorded, left>>

\* AfterRaise of a loop without its `except Exception`: the error ends report()
AfterRaiseExit(who) == IF who = "loop" THEN "exited" ELSE "idle"

\* where control goes when _report raises: the loop's `except Exception` logs
\* and starts the next iteration; flush() lets the exception reach its caller
AfterRaise(who) ==
    IF who = "loop" THEN (IF mode = "sync" THEN "new_timer" ELSE "top") ELSE "idle"

\* SendRaise of a _report that catches the error inside its for loop and goes
\* on with the next chunk
SendRaiseContinue(who) ==
    /\ pc[who] = "sending"
    /\ sent' = [sent EXCEPT ![Len(sent)].status = "raise"]
    /\ n' = n + 1
    /\ pc' = [pc EXCEPT ![who] = AfterChunk(n)]
    /\ UNCHANGED <<mode, report_interval, waited, facade, stopAt, metrics, statistics, lock, stopped, timer, sleep_task, w,
                   metric_data, sentBase, recorded, left>>

\* SendRaise of a _report that takes the lock with acquire() and releases it
\* only at its end: the error leaves _report with the lock held
SendRaiseHoldsLock(who) ==
    /\ pc[who] = "sending"
    /\ sent' = [sent EXCEPT ![Len(sent)].status = "raise"]
    /\ pc' = [pc EXCEPT ![who] = AfterRaise(who)]
    /\ UNCHANGED <<mode, report_interval, waited, facade, stopAt, metrics, statistics, lock, stopped, timer, sleep_task, w,
                   metric_data, n, sentBase, recorded, left>>

\* put_metric_data raises: the `with` block releases the lock and _report is left
SendRaise(who) ==
    /\ pc[who] = "sending"
    /\ sent' = [sent EXCEPT ![Len(sent)].status = "raise"]
    /\ lock' = "free"
    /\ pc' = [pc EXCEPT ![who] = AfterRaise(who)]
    /\ UNCHANGED <<mode, report_interval, waited, facade, stopAt, metrics, statistics, stopped, timer, sleep_task, w,
                   metric_data, n, sentBase, recorded, left>>

\* where control goes when _report returns
AfterReport(who) ==
    IF who = "loop" THEN (IF mode = "sync" THEN "new_timer" ELSE "top") ELSE "idle"

\* the for loop is over: log.debug, the lock is released, _report returns
ReportDone(who) ==
    /\ pc[who] = "done"
    /\ lock' = "free"
    /\ pc' = [pc EXCEPT ![who] = AfterReport(who)]
    /\ UNCHANGED <<mode, report_interval, waited, facade, stopAt, metrics, statistics, stopped, timer, sleep_task, w,
                   metric_data, n, sent, sentBase, recorded, left>>

\* flush(): _report is entered; it drains at once when the lock is free
FlushCall ==
    /\ pc.flush = "idle"
    /\ left.flushes > 0
    /\ left' = [left EXCEPT !.flushes = @ - 1]
    /\ IF lock = "free"
       THEN Drain("flush")
       ELSE /\ pc' = [pc EXCEPT !.flush = "acquire"]
            /\ UNCHANGED <<metrics, statistics, lock, metric_data, n, sentBase, recorded>>
    /\ UNCHANGED <<mode, report_interval, waited, facade, stopAt, stopped, timer, sleep_task, w, sent>>

(***************************************************************************)
(* run(), stop() and the periodic loop                                     *)
(***************************************************************************)
\* run() with a report_interval that is false: nothing is done
RunNoInterval ==
    /\ ~Truthy(report_interval)
    /\ left.runs > 0
    /\ left' = [left EXCEPT !.runs = @ - 1]
    /\ UNCHANGED <<mode, report_interval, waited, facade, stopAt, metrics, statistics, lock,
                   stopped, timer, sleep_task, pc, w, metric_data, n, sent, sentBase,
                   recorded>>

\* run() with a report_interval that is true: the report thread / task is started
Run ==
    /\ pc.loop = "idle"
    /\ Truthy(report_interval)
    /\ pc' = [pc EXCEPT !.loop = IF mode = "sync" THEN "new_timer" ELSE "top"]
    /\ UNCHANGED <<mode, report_interval, waited, facade, stopAt, metrics, statistics, lock, stopped, timer, sleep_task, w,
                   metric_data, n, sent, sentBase, recorded, left>>

\* sync report: self.timer = threading.Event()
SyncNewTimer ==
    /\ mode = "sync" /\ pc.loop = "new_timer"
    /\ timer' = "unset"
    /\ pc' = [pc EXCEPT !.loop = "wait"]
    /\ UNCHANGED <<mode, report_interval, waited, facade, stopAt, metrics, statistics, lock, stopped, sleep_task, w,
                   metric_data, n, sent, sentBase, recorded, left>>

\* WaitResult of a wait that a set flag does not end: it always times out
WaitResultTimeout(flag) == FALSE

\* value of Event.wait(report_interval): True when the flag is set, False at the timeout
WaitResult(flag) == flag = "set"

\* sync report: self.timer.wait(self.report_interval) returns
SyncWait ==
    /\ mode = "sync" /\ pc.loop = "wait"
    /\ w' = WaitResult(timer)
    /\ waited' = (waited \/ ~WaitResult(timer))
    /\ pc' = [pc EXCEPT !.loop = "assign"]
    /\ UNCHANGED <<mode, report_interval, facade, stopAt, metrics, statistics, lock, stopped, timer, sleep_task,
                   metric_data, n, sent, sentBase, recorded, left>>

\* value stored by `self.stopped = self.timer.wait(...)`
StoppedAfterWait == w

\* sync report: the result of wait is stored in self.stopped
SyncAssign ==
    /\ mode = "sync" /\ pc.loop = "assign"
    /\ stopped' = StoppedAfterWait
    /\ pc' = [pc EXCEPT !.loop = "check"]
    /\ UNCHANGED <<mode, report_interval, waited, facade, stopAt, metrics, statistics, lock, timer, sleep_task, w,
                   metric_data, n, sent, sentBase, recorded, left>>

\* sync report: if self.stopped: return
SyncCheck ==
    /\ mode = "sync" /\ pc.loop = "check"
    /\ pc' = [pc EXCEPT !.loop = IF stopped THEN "exited" ELSE "len_check"]
    /\ UNCHANGED <<mode, report_interval, waited, facade, stopAt, metrics, statistics, lock, stopped, timer, sleep_task, w,
                   metric_data, n, sent, sentBase, recorded, left>>

\* NothingToReport of a loop without its emptiness test: it always reports
NothingToReportNever == FALSE

\* len(self.metrics) + len(self.statistics) == 0
NothingToReport == Len(metrics) + Len(statistics) = 0

\* sync report: nothing to report -> continue, else self._report()
SyncLenCheck ==
    /\ mode = "sync" /\ pc.loop = "len_check"
    /\ pc' = [pc EXCEPT !.loop = IF NothingToReport THEN "new_timer" ELSE "acquire"]
    /\ UNCHANGED <<mode, report_interval, waited, facade, stopAt, metrics, statistics, lock, stopped, timer, sleep_task, w,
                   metric_data, n, sent, sentBase, recorded, left>>

\* the transport calls made by the periodic loop so far
LoopCalls == Cardinality({i \in 1..Len(sent) : sent[i].by = "loop"})

\* the report thread / task has begun its first iteration and has not returned
LoopRunning ==
    /\ pc.loop \notin {"idle", "exited"}
    /\ mode = "sync" => timer # "none"

\* stop() notes whether the loop was running, and, when the loop is in a wait
\* that has not ended, the number of transport calls the loop has made so far
NoteStop(waiting) ==
    stopAt' = IF waiting /\ ~stopAt.waiting
              THEN [running |-> TRUE, waiting |-> TRUE, calls |-> LoopCalls]
              ELSE [stopAt EXCEPT !.running = @ \/ LoopRunning]

\* sync stop(): if self.timer is not None: self.timer.set()
SyncStopSet ==
    /\ mode = "sync" /\ pc.stop = "idle"
    /\ left.stops > 0
    /\ left' = [left EXCEPT !.stops = @ - 1]
    /\ timer' = IF timer = "none" THEN "none" ELSE "set"
    /\ pc' = [pc EXCEPT !.stop = "mark"]
    /\ NoteStop(pc.loop = "wait" /\ timer = "unset")
    /\ UNCHANGED <<mode, report_interval, waited, facade, metrics, statistics, lock, stopped, sleep_task, w,
                   metric_data, n, sent, sentBase, recorded>>

\* sync stop(): self.stopped = True
SyncStopMark ==
    /\ mode = "sync" /\ pc.stop = "mark"
    /\ stopped' = TRUE
    /\ pc' = [pc EXCEPT !.stop = "idle"]
    /\ UNCHANGED <<mode, report_interval, waited, facade, stopAt, metrics, statistics, lock, timer, sleep_task, w,
                   metric_data, n, sent, sentBase, recorded, left>>

\* async report, head of the while loop: return when stopped, else start the sleep
AsyncTop ==
    /\ mode = "async" /\ pc.loop = "top"
    /\ IF stopped
       THEN /\ pc' = [pc EXCEPT !.loop = "exited"]
            /\ UNCHANGED sleep_task
       ELSE /\ sleep_task' = "pending"
            /\ pc' = [pc EXCEPT !.loop = "sleeping"]
    /\ UNCHANGED <<mode, report_interval, waited, facade, stopAt, metrics, statistics, lock, stopped, timer, w,
                   metric_data, n, sent, sentBase, recorded, left>>

\* asyncio.sleep(report_interval) completes
AsyncSleepElapse ==
    /\ mode = "async" /\ pc.loop = "sleeping" /\ sleep_task = "pending"
    /\ sleep_task' = "done"
    /\ waited' = TRUE
    /\ UNCHANGED <<mode, report_interval, facade, stopAt, metrics, statistics, lock, stopped, timer, pc, w,
                   metric_data, n, sent, sentBase, recorded, left>>

\* async report: `await self.sleep_task` raises CancelledError: return
AsyncSleepCancelled ==
    /\ mode = "async" /\ pc.loop = "sleeping" /\ sleep_task = "cancelled"
    /\ pc' = [pc EXCEPT !.loop = "exited"]
    /\ UNCHANGED <<mode, report_interval, waited, facade, stopAt, metrics, statistics, lock, stopped, timer, sleep_task, w,
                   metric_data, n, sent, sentBase, recorded, left>>

\* async report resumes after the sleep: nothing to report -> continue, else
\* _report, which drains at once when the lock is free
AsyncWake ==
    /\ mode = "async" /\ pc.loop = "sleeping" /\ sleep_task = "done"
    /\ IF NothingToReport
       THEN /\ pc' = [pc EXCEPT !.loop = "top"]
            /\ UNCHANGED <<metrics, statistics, lock, metric_data, n, sentBase, recorded>>
       ELSE IF lock = "free"
       THEN Drain("loop")
       ELSE /\ pc' = [pc EXCEPT !.loop = "acquire"]
            /\ UNCHANGED <<metrics, statistics, lock, metric_data, n, sentBase, recorded>>
    /\ UNCHANGED <<mode, report_interval, waited, facade, stopAt, stopped, timer, sleep_task, w, sent, left>>

\* state of the sleep task after Task.cancel()
Cancel(task) == IF task = "pending" THEN "cancelled" ELSE task

\* async stop(): cancel the sleep task if there is one, self.stopped = True
AsyncStop ==
    /\ mode = "async" /\ pc.stop = "idle"
    /\ left.stops > 0
    /\ left' = [left EXCEPT !.stops = @ - 1]
    /\ sleep_task' = Cancel(sleep_task)
    /\ stopped' = TRUE
    /\ NoteStop(pc.loop = "sleeping" /\ sleep_task = "pending")
    /\ UNCHANGED <<mode, report_interval, waited, facade, metrics, statistics, lock, timer, pc, w,
                   metric_data, n, sent, sentBase, recorded>>

(***************************************************************************)
(* Specifications                                                          *)
(***************************************************************************)
Record ==
    \E name \in Names, value \in Values :
        \/ put_metric(name, NoDimensions, value, None)
        \/ put_statistic(name, NoDimensions, value, None)

Report ==
    \E who \in Callers :
        \/ ReportAcquire(who)
        \/ SendCall(who)
        \/ \E status \in {"ok", "fail"} : SendReturn(who, status)
        \/ SendRaise(who)
        \/ ReportDone(who)

Loop ==
    \/ Run
    \/ SyncNewTimer \/ SyncWait \/ SyncAssign \/ SyncCheck \/ SyncLenCheck
    \/ AsyncTop \/ AsyncSleepElapse \/ AsyncSleepCancelled \/ AsyncWake

Stop == SyncStopSet \/ SyncStopMark \/ AsyncStop

Next == PutCall \/ Record \/ FlushCall \/ Report \/ Loop \/ Stop

Spec == Init /\ [][Next]_vars

(***************************************************************************)
(* SpecStore: recordings and flush() on a reporter whose loop is not       *)
(* running, with wider inputs                                              *)
(***************************************************************************)
InitStore ==
    /\ mode \in Modes
    /\ WithReporter
    /\ InitReporter
    /\ left = [puts |-> MaxRecordings, flushes |-> MaxStoreFlushes, stops |-> 0]

RecordWide ==
    \E name \in WideNames, dimensions \in WideDimensions, value \in WideValues :
        \/ put_metric(name, dimensions, value, None)
        \/ put_statistic(name, dimensions, value, "Microseconds")

ReportFlush ==
    \/ SendCall("flush")
    \/ \E status \in {"ok", "fail"} : SendReturn("flush", status)
    \/ SendRaise("flush")
    \/ ReportDone("flush")

NextStore == PutCall \/ RecordWide \/ FlushCall \/ ReportFlush

SpecStore == InitStore /\ [][NextStore]_vars

(***************************************************************************)
(* SpecIdentity: counter recordings for one name under two dimension sets   *)
(* that differ in content, then flush()                                    *)
(***************************************************************************)
CollidingDimensions ==
    {Dims(<<<<"d", "1&e=2">>>>), Dims(<<<<"d", "1">>, <<"e", "2">>>>)}

RecordIdentity ==
    \E name \in WideNames, dimensions \in CollidingDimensions, value \in WideValues :
        put_metric(name, dimensions, value, None)

NextIdentity == PutCall \/ RecordIdentity \/ FlushCall \/ ReportFlush

SpecIdentity == InitStore /\ [][NextIdentity]_vars

(***************************************************************************)
(* SpecFingerprint: counter recordings over names and dimension dicts that  *)
(* differ in content or in order; Metric.generate_id keys the store        *)
(***************************************************************************)
FingerprintNames == {"x", "x?d=1"}
FingerprintDimensions ==
    {NoDimensions,
     Dims(<<<<"d", "1">>>>),
     Dims(<<<<"d", "1">>, <<"e", "2">>>>),
     Dims(<<<<"e", "2">>, <<"d", "1">>>>),
     Dims(<<<<"d", "1&e=2">>>>)}

InitFingerprint ==
    /\ mode \in Modes
    /\ WithReporter
    /\ InitReporter
    /\ left = [puts |-> MaxPuts, flushes |-> 0, stops |-> 0]

RecordFingerprint ==
    \E name \in FingerprintNames, dimensions \in FingerprintDimensions :
        put_metric(name, dimensions, 1, None)

NextFingerprint == PutCall \/ RecordFingerprint

SpecFingerprint == InitFingerprint /\ [][NextFingerprint]_vars

(***************************************************************************)
(* monitored_task: a function wrapped by the facade's decorator.  In the   *)
(* blocking facade the wrapper runs `with monitor()`, in the non-blocking  *)
(* one (func a coroutine function) `async with async_monitor()`; both      *)
(* context managers have the same body                                     *)
(***************************************************************************)
\* dict[key] = value on an insertion-ordered dict kept as a sequence of pairs
SetItem(pairs, key, value) ==
    LET i == KeyIndex(pairs, key) IN
    IF i = 0 THEN Append(pairs, <<key, value>>)
    ELSE [pairs EXCEPT ![i] = <<key, value>>]

\* timedelta.microseconds of an elapsed time given in microseconds
microseconds(elapsed) == elapsed % 1000000

\* the wrapper is called: monitor() runs to its yield
monitor_enter ==
    /\ facade.task = "idle"
    /\ left.tasks > 0
    /\ left' = [left EXCEPT !.tasks = @ - 1]
    /\ facade' = [facade EXCEPT !.previous_dimensions = facade.dimensions,
                                !.dimensions = NoDimensions,
                                !.task = "func"]
    /\ UNCHANGED <<mode, report_interval, waited, stopAt, metrics, statistics, lock, stopped, timer, sleep_task, w,
                   metric_data, n, sent, sentBase, recorded, pc>>

\* with_monitored_dimension(dimension, value), called by the wrapped function
with_monitored_dimension(dimension, value) ==
    /\ facade.task = "func"
    /\ left.dims > 0
    /\ left' = [left EXCEPT !.dims = @ - 1]
    /\ facade' = [facade EXCEPT !.dimensions =
                      Dims(SetItem(facade.dimensions.pairs, dimension, value))]
    /\ UNCHANGED <<mode, report_interval, waited, stopAt, metrics, statistics, lock, stopped, timer, sleep_task, w,
                   metric_data, n, sent, sentBase, recorded, pc>>

\* func returns after `elapsed` microseconds: monitor() goes on after its
\* yield and calls cls.put_statistic(name, cls.dimensions, elapsed.microseconds,
\* 'Microseconds'), which reaches the reporter's `with self.lock`
func_returns(elapsed) ==
    /\ facade.task = "func"
    /\ pc.rec = "idle"
    /\ facade' = [facade EXCEPT !.task = "put_statistic",
                                !.elapsed = elapsed,
                                !.value = microseconds(elapsed)]
    /\ pc' = [pc EXCEPT !.rec = "waiting"]
    /\ UNCHANGED <<mode, report_interval, waited, stopAt, metrics, statistics, lock, stopped, timer, sleep_task, w,
                   metric_data, n, sent, sentBase, recorded, left>>

\* func raises: the context manager throws the error into monitor() at its
\* yield, which is in no try block, so nothing after the yield runs and the
\* error leaves the wrapper
func_raises ==
    /\ facade.task = "func"
    /\ facade' = [facade EXCEPT !.task = "idle"]
    /\ UNCHANGED <<mode, report_interval, waited, stopAt, metrics, statistics, lock, stopped, timer, sleep_task, w,
                   metric_data, n, sent, sentBase, recorded, left, pc>>

\* the put_statistic call of monitor() runs under the lock and returns True
monitor_put_statistic ==
    /\ facade.task = "put_statistic"
    /\ put_statistic("transaction", facade.dimensions, facade.value, "Microseconds")

\* monitor(): cls.dimensions = previous_dimensions; the wrapper returns
monitor_exit ==
    /\ facade.task = "put_statistic"
    /\ pc.rec = "idle"
    /\ facade' = [facade EXCEPT !.dimensions = facade.previous_dimensions,
                                !.task = "idle"]
    /\ UNCHANGED <<mode, report_interval, waited, stopAt, metrics, statistics, lock, stopped, timer, sleep_task, w,
                   metric_data, n, sent, sentBase, recorded, left, pc>>

(***************************************************************************)
(* SpecTask: timed operations on a configured facade                       *)
(***************************************************************************)
MonitoredDimensions == {"Test_Dimension"}
MonitoredValues == {"ValueX", "ValueY"}
ElapsedTimes == {100000, 1500000}

InitTask ==
    /\ mode \in Modes
    /\ WithReporter
    /\ InitReporter
    /\ left = [puts |-> 0, flushes |-> 0, stops |-> 0,
               tasks |-> MaxTasks, dims |-> MaxTaskDimensions]

NextTask ==
    \/ monitor_enter
    \/ \E dimension \in MonitoredDimensions, value \in MonitoredValues :
           with_monitored_dimension(dimension, value)
    \/ \E elapsed \in ElapsedTimes : func_returns(elapsed)
    \/ func_raises
    \/ monitor_put_statistic
    \/ monitor_exit

SpecTask == InitTask /\ [][NextTask]_vars

(***************************************************************************)
(* Recording calls through the facade, with and without a reporter, and    *)
(* recording calls that miss a required field                              *)
(***************************************************************************)
\* the class attributes of CloudWatch*Metrics as declared: reporter = None
NoReporter == facade = [reporter |-> FALSE, dimensions |-> NoDimensions,
                        previous_dimensions |-> NoDimensions, task |-> "idle",
                        elapsed |-> 0, value |-> 0, returned |-> "none",
                        namespace |-> NamespaceDeclared]

\* CloudWatch*Metrics.with_reporter(reporter)
with_reporter ==
    /\ ~facade.reporter
    /\ pc.rec = "idle"
    /\ facade' = [facade EXCEPT !.reporter = TRUE]
    /\ UNCHANGED <<mode, report_interval, waited, stopAt, metrics, statistics, lock, stopped, timer, sleep_task, w,
                   metric_data, n, sent, sentBase, recorded, left, pc>>

\* FacadeNoReporter of a facade without its `except AttributeError`
FacadeNoReporterRaises ==
    /\ ~facade.reporter
    /\ pc.rec = "idle"
    /\ left.puts > 0
    /\ left' = [left EXCEPT !.puts = @ - 1]
    /\ facade' = [facade EXCEPT !.returned = "AttributeError"]
    /\ UNCHANGED <<mode, report_interval, waited, stopAt, metrics, statistics, lock, stopped, timer, sleep_task, w,
                   metric_data, n, sent, sentBase, recorded, pc>>

\* CloudWatch*Metrics.put_metric / put_statistic while cls.reporter is None:
\* the AttributeError of None.put_metric is caught, False is returned
FacadeNoReporter ==
    /\ ~facade.reporter
    /\ pc.rec = "idle"
    /\ left.puts > 0
    /\ left' = [left EXCEPT !.puts = @ - 1]
    /\ facade' = [facade EXCEPT !.returned = "False"]
    /\ UNCHANGED <<mode, report_interval, waited, stopAt, metrics, statistics, lock, stopped, timer, sleep_task, w,
                   metric_data, n, sent, sentBase, recorded, pc>>

\* CloudWatch*Metrics.put_metric / put_statistic with a reporter: the
\* reporter's method is entered
FacadePutCall ==
    /\ facade.reporter
    /\ PutCall

\* put_metric whose missing Value is read with a default: the call returns True
put_metric_missing_silent(field, name, dimensions) ==
    /\ pc.rec = "waiting"
    /\ lock = "free"
    /\ pc' = [pc EXCEPT !.rec = "idle"]
    /\ facade' = [facade EXCEPT !.returned = "True"]
    /\ UNCHANGED <<mode, report_interval, waited, stopAt, metrics, statistics, lock, stopped, timer, sleep_task, w,
                   metric_data, n, sent, sentBase, recorded, left>>

\* put_metric(**metric_data) without 'MetricName' or without 'Value': under
\* the lock, metric_data['MetricName'] raises KeyError at once;
\* metric_data['Value'] raises it after the series has been looked up or
\* created.  The lock is released and the KeyError reaches the caller (the
\* facade catches AttributeError only)
put_metric_missing(field, name, dimensions) ==
    /\ pc.rec = "waiting"
    /\ lock = "free"
    /\ metrics' = IF field = "MetricName" THEN metrics
                  ELSE GetOrCreate(metrics, MetricSeries(name, dimensions, None))
    /\ pc' = [pc EXCEPT !.rec = "idle"]
    /\ facade' = [facade EXCEPT !.returned = "KeyError"]
    /\ UNCHANGED <<mode, report_interval, waited, stopAt, statistics, lock, stopped, timer, sleep_task, w,
                   metric_data, n, sent, sentBase, recorded, left>>

\* put_statistic called without one of its required arguments name,
\* dimensions, value: the call itself raises TypeError
put_statistic_missing ==
    /\ facade.reporter
    /\ pc.rec = "idle"
    /\ left.puts > 0
    /\ left' = [left EXCEPT !.puts = @ - 1]
    /\ facade' = [facade EXCEPT !.returned = "TypeError"]
    /\ UNCHANGED <<mode, report_interval, waited, stopAt, metrics, statistics, lock, stopped, timer, sleep_task, w,
                   metric_data, n, sent, sentBase, recorded, pc>>

(***************************************************************************)
(* SpecFacade: recording calls through the facade, well-formed or not,     *)
(* before and after with_reporter, and flush()                             *)
(***************************************************************************)
InitFacade ==
    /\ mode \in Modes
    /\ NoReporter
    /\ InitReporter
    /\ left = [puts |-> MaxFacadeCalls, flushes |-> MaxStoreFlushes, stops |-> 0]

RecordMissing ==
    \E field \in {"MetricName", "Value"}, name \in WideNames,
       dimensions \in WideDimensions :
        put_metric_missing(field, name, dimensions)

NextFacade ==
    \/ with_reporter
    \/ FacadeNoReporter
    \/ FacadePutCall
    \/ RecordWide
    \/ RecordMissing
    \/ put_statistic_missing
    \/ FlushCall
    \/ ReportFlush

SpecFacade == InitFacade /\ [][NextFacade]_vars

(***************************************************************************)
(* SpecDimensions: recordings whose dimensions are None, an empty dict or   *)
(* a dict of one or two pairs, then flush()                                *)
(***************************************************************************)
GivenDimensions ==
    {NoDimensions,
     Dims(<<>>),
     Dims(<<<<"d", "1">>>>),
     Dims(<<<<"e", "2">>, <<"d", "1">>>>)}

InitDimensions ==
    /\ mode \in Modes
    /\ WithReporter
    /\ InitReporter
    /\ left = [puts |-> MaxPuts, flushes |-> MaxStoreFlushes, stops |-> 0]

RecordDimensions ==
    \E name \in Names, dimensions \in GivenDimensions :
        \/ put_metric(name, dimensions, 1, None)
        \/ put_statistic(name, dimensions, 1, "Microseconds")

NextDimensions == PutCall \/ RecordDimensions \/ FlushCall \/ ReportFlush

SpecDimensions == InitDimensions /\ [][NextDimensions]_vars

(***************************************************************************)
(* SpecSeries: as SpecStore, on a store that holds a StatisticSeries        *)
(* constructed without samples (tests/test_aiocloudwatch.py constructs the *)
(* series classes directly)                                                *)
(***************************************************************************)
InitSeries ==
    /\ mode \in Modes
    /\ WithReporter
    /\ report_interval = Seconds(DefaultInterval)
    /\ waited = FALSE
    /\ metrics = <<>>
    /\ statistics = <<StatisticSeries("x", NoDimensions, "Microseconds")>>
    /\ lock = "free"
    /\ stopped = FALSE
    /\ timer = "none"
    /\ sleep_task = "none"
    /\ pc = [loop |-> "idle", flush |-> "idle", stop |-> "idle", rec |-> "idle"]
    /\ w = FALSE
    /\ metric_data = <<>>
    /\ n = 0
    /\ sent = <<>>
    /\ sentBase = 0
    /\ recorded = <<>>
    /\ stopAt = [running |-> FALSE, waiting |-> FALSE, calls |-> 0]
    /\ left = [puts |-> MaxRecordings, flushes |-> MaxStoreFlushes, stops |-> 0]

RecordSamples ==
    \E name \in WideNames, dimensions \in WideDimensions, value \in WideValues :
        put_statistic(name, dimensions, value, "Microseconds")

NextSeries == PutCall \/ RecordSamples \/ FlushCall \/ ReportFlush

SpecSeries == InitSeries /\ [][NextSeries]_vars

(***************************************************************************)
(* SpecBatch: reporting cycles over a store that already holds many series *)
(***************************************************************************)
InitBatch ==
    /\ mode \in Modes
    /\ WithReporter
    /\ InitReporter
    /\ left = [puts |-> MaxBatchCounters + MaxBatchStatistics, flushes |-> 1, stops |-> 0]

\* the caller records before it starts reporting: a series of counters, each of
\* a metric of its own, then a series of statistics
RecordBatch ==
    /\ pc.loop = "idle" /\ left.flushes = 1
    /\ \/ /\ Len(statistics) = 0 /\ Len(metrics) < MaxBatchCounters
          /\ put_metric("m" \o ToString(Len(metrics) + 1), NoDimensions,
                        Len(metrics) + 1, None)
       \/ /\ Len(statistics) < MaxBatchStatistics
          /\ put_statistic("s" \o ToString(Len(statistics) + 1), NoDimensions,
                           Len(statistics) + 1, None)

\* the caller starts reporting once it is done recording
StartBatch ==
    /\ pc.rec = "idle"
    /\ FlushCall \/ Run

LoopSteps ==
    \/ SyncNewTimer \/ SyncWait \/ SyncAssign \/ SyncCheck \/ SyncLenCheck
    \/ AsyncTop \/ AsyncSleepElapse \/ AsyncWake

NextBatch == PutCall \/ RecordBatch \/ StartBatch \/ Report \/ LoopSteps

SpecBatch == InitBatch /\ [][NextBatch]_vars

(***************************************************************************)
(* SpecNamespace: with_namespace on either facade class, recording calls   *)
(* and flush()                                                             *)
(***************************************************************************)
Namespaces == {"ns1", "ns2"}
FacadeClasses == {"CloudWatchAsyncMetrics", "CloudWatchSyncMetrics"}

\* cls.with_namespace(namespace)
with_namespace(cls, namespace) ==
    /\ left.namespaces > 0
    /\ left' = [left EXCEPT !.namespaces = @ - 1]
    /\ facade' = [facade EXCEPT !.namespace = SetNamespace(@, cls, namespace)]
    /\ UNCHANGED <<mode, report_interval, waited, stopAt, metrics, statistics, lock, stopped, timer, sleep_task, w,
                   metric_data, n, sent, sentBase, recorded, pc>>

InitNamespace ==
    /\ mode \in Modes
    /\ NoReporter
    /\ InitReporter
    /\ left = [puts |-> MaxPuts, flushes |-> MaxNamespaceFlushes, stops |-> 0,
               namespaces |-> MaxNamespaces]

NextNamespace ==
    \/ \E cls \in FacadeClasses, namespace \in Namespaces : with_namespace(cls, namespace)
    \/ with_reporter
    \/ FacadePutCall
    \/ Record
    \/ FlushCall
    \/ ReportFlush

SpecNamespace == InitNamespace /\ [][NextNamespace]_vars

(***************************************************************************)
(* SpecLock: recording calls, also such that miss a field, flush() and the  *)
(* periodic loop, under fairness:                                          *)
(* a caller blocked on the lock gets it once it stays free, a transport    *)
(* call returns or raises, and a thread or task that can go on does        *)
(***************************************************************************)
RecordOrRaise ==
    \/ Record
    \/ \E field \in {"MetricName", "Value"} :
           put_metric_missing(field, "a", NoDimensions)

TransportAnswers(who) ==
    \/ \E status \in {"ok", "fail"} : SendReturn(who, status)
    \/ SendRaise(who)

NextLock == PutCall \/ RecordOrRaise \/ FlushCall \/ Report \/ Run \/ LoopSteps

FairLock ==
    /\ WF_vars(RecordOrRaise)
    /\ \A who \in Callers :
          /\ WF_vars(ReportAcquire(who))
          /\ WF_vars(SendCall(who))
          /\ WF_vars(TransportAnswers(who))
          /\ WF_vars(ReportDone(who))

SpecLock == Init /\ [][NextLock]_vars /\ FairLock

(***************************************************************************)
(* SpecInterval: reporters constructed with report_interval None, 0 or the *)
(* default; run(), recording calls, flush()                                *)
(***************************************************************************)
Intervals == {NoInterval, Seconds(0), Seconds(DefaultInterval)}

InitInterval ==
    /\ mode \in Modes
    /\ WithReporter
    /\ report_interval \in Intervals
    /\ waited = FALSE
    /\ metrics = <<>>
    /\ statistics = <<>>
    /\ lock = "free"
    /\ stopped = FALSE
    /\ timer = "none"
    /\ sleep_task = "none"
    /\ pc = [loop |-> "idle", flush |-> "idle", stop |-> "idle", rec |-> "idle"]
    /\ w = FALSE
    /\ metric_data = <<>>
    /\ n = 0
    /\ sent = <<>>
    /\ sentBase = 0
    /\ recorded = <<>>
    /\ stopAt = [running |-> FALSE, waiting |-> FALSE, calls |-> 0]
    /\ left = [puts |-> MaxPuts, flushes |-> MaxFlushes, stops |-> 0, runs |-> MaxRuns]

NextInterval ==
    PutCall \/ Record \/ FlushCall \/ Report \/ Run \/ RunNoInterval \/ LoopSteps

SpecInterval == InitInterval /\ [][NextInterval]_vars
(***************************************************************************)
(* Properties                                                              *)
(***************************************************************************)
\* the transport calls of the current (or last) reporting cycle, in call order
CycleCalls == SubSeq(sent, sentBase + 1, Len(sent))

RECURSIVE Concat(_)
\* the batches of the calls, one after the other
Concat(calls) ==
    IF Len(calls) = 0 THEN <<>> ELSE calls[1].batch \o Concat(Tail(calls))

\* _report has left its for loop normally: every transport call of the cycle returned
CycleComplete(who) == pc[who] = "done"

\* C1: a reporting cycle (periodic or flush()) that drained k records and whose
\* transport calls all returned made exactly ceil(k/20) calls, each carrying
\* between 1 and 20 records, and the batches concatenated in call order are the
\* drained record list.
C1_ChunksPartitionDrained ==
    \A who \in Callers :
        CycleComplete(who) =>
            LET k == Len(metric_data) IN
            /\ Len(CycleCalls) = (k + 19) \div 20
            /\ \A i \in 1..Len(CycleCalls) :
                  /\ CycleCalls[i].by = who
                  /\ Len(CycleCalls[i].batch) \in 1..20
            /\ Concat(CycleCalls) = metric_data

\* C1 witness: a complete cycle of 41 records, sent in 3 calls
C1_Witness ==
    /\ \E who \in Callers : CycleComplete(who)
    /\ Len(metric_data) = 41
    /\ Len(CycleCalls) = 3
\* a stop() call has returned
StopReturned == left.stops < MaxStops /\ pc.stop = "idle"

\* the loop is in a wait that nothing has ended or cancelled
WaitPending ==
    \/ mode = "sync" /\ pc.loop = "wait" /\ timer = "unset"
    \/ mode = "async" /\ pc.loop = "sleeping" /\ sleep_task = "pending"

\* C2: in both reporters, once stop() has been invoked on a reporter whose
\* periodic loop is running, the loop exits whatever point of its iteration it
\* was at: at most the cycle in progress completes, and no later wait or cycle
\* is started. Stated on finite runs: after stop() has returned, the loop is
\* never in a wait that stop() has not ended.
C2_StopEndsLoop == (stopAt.running /\ StopReturned) => ~WaitPending

\* the positions the loop can be at between a wait ended by stop() and its return
ExitPath ==
    IF mode = "sync"
    THEN \/ pc.loop = "wait" /\ timer = "set"
         \/ pc.loop = "assign" /\ w
         \/ pc.loop = "check" /\ stopped
         \/ pc.loop = "exited"
    ELSE \/ pc.loop = "sleeping" /\ sleep_task = "cancelled"
         \/ pc.loop = "exited"

\* C3: if stop() is invoked while the periodic loop is in its wait, the loop
\* exits without a final report: from then on the loop is on its way out, it
\* makes no transport call and never takes the lock to drain, even when the
\* store holds unflushed records.
C3_StopDuringWait ==
    stopAt.waiting =>
        /\ ExitPath
        /\ LoopCalls = stopAt.calls
        /\ lock # "loop"

\* C3 witness: the loop has exited after a stop() during its wait, and the
\* store still holds records
C3_Witness ==
    /\ stopAt.waiting
    /\ pc.loop = "exited"
    /\ ~NothingToReport
\* number of observations held by the series of the store
ObsInStore ==
    SumSeq([i \in 1..Len(metrics) |->
              SumSeq([j \in 1..Len(metrics[i].value) |-> metrics[i].value[j][2]])])
    + SumSeq([i \in 1..Len(statistics) |-> Len(statistics[i].value)])

\* number of observations the records account for
ObsInRecords(data) ==
    SumSeq([i \in 1..Len(data) |->
              IF "Values" \in DOMAIN data[i]
              THEN SumSeq(data[i].Counts)
              ELSE data[i].StatisticValues.SampleCount])

\* a step that drains the store: _report takes the lock
DrainStep == lock = "free" /\ lock' # "free"

\* a step in which a recording call completes
RecordStep == pc.rec = "waiting" /\ pc'.rec = "idle"

\* C4: immediately after a drain both maps of the store are empty, and an
\* observation recorded by a concurrent call is never added to a drained
\* aggregate: the drained records account for every observation the store held,
\* every completed recording call adds its observation to the store that the
\* next drain will see, and nothing else changes the store.
C4_DrainLeavesStoreEmpty ==
    [][ /\ DrainStep =>
              /\ metrics' = <<>> /\ statistics' = <<>>
              /\ ObsInRecords(metric_data') = ObsInStore
        /\ RecordStep => ObsInStore' = ObsInStore + 1
        /\ ~DrainStep /\ ~RecordStep => UNCHANGED <<metrics, statistics>>
      ]_vars

\* C4 witness: after a drain that took a counter series, a recording of the same
\* metric by a caller that was waiting during the cycle is held in a fresh series
C4_Witness ==
    /\ Len(metric_data) > 0 /\ Len(metrics) > 0
    /\ "Values" \in DOMAIN metric_data[1]
    /\ metric_data[1].MetricName = metrics[1].name
    /\ metrics[1].value = <<<<1, 1>>>>
\* a step in which the transport raises inside a cycle of the periodic loop
LoopRaiseStep ==
    /\ pc.loop = "sending"
    /\ Len(sent') = Len(sent)
    /\ sent'[Len(sent)].status = "raise"

\* the loop is at the head of an iteration
IterationHead == IF mode = "sync" THEN "new_timer" ELSE "top"

\* C5: the periodic loop terminates only as a result of stop(): report() returns
\* only after stop() was invoked, and an error raised by the transport inside a
\* reporting cycle leaves the loop at the head of its next iteration, the lock
\* released.
C5_LoopEndsOnlyByStop ==
    [][ /\ pc'.loop = "exited" => left'.stops < MaxStops
        /\ LoopRaiseStep => pc'.loop = IterationHead /\ lock' = "free"
      ]_vars

\* C5 witness: after a cycle of the loop in which the transport raised, a later
\* cycle of the loop has published a record
C5_Witness ==
    \E i, j \in 1..Len(sent) :
        /\ i < j
        /\ sent[i].by = "loop" /\ sent[i].status = "raise"
        /\ sent[j].by = "loop" /\ sent[j].status = "ok"
        /\ Len(sent[j].batch) > 0
\* who is inside the drain-chunk-send part of _report
InCycle(who) == pc[who] \in {"send", "sending", "done"}

\* a transport call of the current (or last) cycle raised
CycleRaised == \E i \in 1..Len(CycleCalls) : CycleCalls[i].status = "raise"

\* C6 as claimed: when the transport raises while a chunk is being sent, the
\* cycle proceeds to completion for the remaining chunks: once the cycle is
\* over, every chunk of the drained list has been handed to the transport.
C6_RemainingChunksSent ==
    ((\A who \in Callers : ~InCycle(who)) /\ CycleRaised) =>
        Len(CycleCalls) = (Len(metric_data) + 19) \div 20

\* C6 as amended: when the transport raises while a chunk is being sent, the
\* reporting cycle ends there: the raising call is the last transport call of
\* the cycle, nobody is left inside the cycle and the lock is released.
C6_RaiseEndsCycle ==
    \A i \in 1..Len(CycleCalls) :
        CycleCalls[i].status = "raise" =>
            /\ i = Len(CycleCalls)
            /\ lock = "free"
            /\ \A who \in Callers : ~InCycle(who)

\* C6 witness: a cycle of 41 records ended by the transport raising on its
\* first chunk, the two other chunks never sent
C6_Witness ==
    /\ lock = "free"
    /\ Len(metric_data) = 41
    /\ Len(CycleCalls) = 1
    /\ CycleCalls[1].status = "raise"
\* the i-th run of at most 20 consecutive records of the list
Slice(data, i) ==
    SubSeq(data, 20 * (i - 1) + 1, IF 20 * i < Len(data) THEN 20 * i ELSE Len(data))

\* the two transport calls carry a common record
ShareRecord(a, b) ==
    \E x \in 1..Len(a.batch), y \in 1..Len(b.batch) : a.batch[x] = b.batch[y]

\* C7: a chunk whose transport call returned a non-success status is not sent
\* again, in this cycle or a later one, and the remaining chunks are still
\* sent: the i-th call of a cycle carries the i-th chunk whatever the statuses
\* of the earlier calls, a cycle whose calls all returned has made one call per
\* chunk, no record is carried by two calls (each metric is recorded once in
\* SpecBatch) and no series of a record that was sent is still in the store.
C7_EachChunkSentOnce ==
    /\ \A i, j \in 1..Len(sent) : i < j => ~ShareRecord(sent[i], sent[j])
    /\ \A i \in 1..Len(sent) : \A x \in 1..Len(sent[i].batch) :
          /\ \A y \in 1..Len(metrics) : metrics[y].name # sent[i].batch[x].MetricName
          /\ \A y \in 1..Len(statistics) : statistics[y].name # sent[i].batch[x].MetricName
    /\ \A i \in 1..Len(CycleCalls) : CycleCalls[i].batch = Slice(metric_data, i)
    /\ \A who \in Callers :
          /\ pc[who] = "send" => Len(CycleCalls) = n
          /\ pc[who] = "sending" => Len(CycleCalls) = n + 1
          /\ pc[who] = "done" => Len(CycleCalls) = (Len(metric_data) + 19) \div 20

\* C7 witness: a cycle of three chunks has sent all three although the first
\* call returned a non-success status
C7_Witness ==
    /\ \E who \in Callers : pc[who] = "done"
    /\ Len(CycleCalls) = 3
    /\ CycleCalls[1].status = "fail"
\* C8: the whole drain-reduce-chunk-send sequence of a reporting cycle runs
\* under one acquisition of the lock: from the drain until the last transport
\* call has returned, the caller of _report holds the lock, the store stays as
\* the drain left it and no recording call has completed.
C8_CycleHoldsLock ==
    \A who \in Callers :
        InCycle(who) =>
            /\ lock = who
            /\ metrics = <<>> /\ statistics = <<>>
            /\ recorded = <<>>

\* C8 witness: a recording call waits for the lock while a transport call of the
\* loop's cycle is in flight
C8_Witness ==
    /\ pc.loop = "sending"
    /\ pc.rec = "waiting"
\* the metric identity of a recording: its name and its ordered dimension pairs
Identity(r) == <<r.name, r.dimensions>>

RECURSIVE Distinct(_)
\* the elements of the sequence, each once, in the order of their first occurrence
Distinct(seq) ==
    IF Len(seq) = 0 THEN <<>>
    ELSE LET before == Distinct(SubSeq(seq, 1, Len(seq) - 1))
             last == seq[Len(seq)]
         IN  IF \E i \in 1..Len(before) : before[i] = last
             THEN before ELSE Append(before, last)

\* number of occurrences of x in the sequence
Count(seq, x) == Cardinality({i \in 1..Len(seq) : seq[i] = x})

\* the recordings of the given kind, in order
OfKind(recs, kind) == SelectSeq(recs, LAMBDA r : r.kind = kind)

\* the identities of the recordings, each once, in order of first recording
Identities(recs) == Distinct([i \in 1..Len(recs) |-> Identity(recs[i])])

\* the values recorded for the identity, in order
ValuesFor(recs, id) ==
    LET mine == SelectSeq(recs, LAMBDA r : Identity(r) = id)
    IN  [i \in 1..Len(mine) |-> mine[i].value]

\* the record names the identity: its name, and its dimension pairs or no
\* Dimensions at all
NamesIdentity(r, id) ==
    /\ r.MetricName = id[1]
    /\ ("Dimensions" \in DOMAIN r) = id[2].present
    /\ id[2].present =>
          r.Dimensions = [i \in 1..Len(id[2].pairs) |->
                            [Name |-> id[2].pairs[i][1], Value |-> id[2].pairs[i][2]]]

\* the counter records / the statistic records of a drained list
CounterRecords(data) == SelectSeq(data, LAMBDA r : "Values" \in DOMAIN r)
StatisticRecords(data) == SelectSeq(data, LAMBDA r : "StatisticValues" \in DOMAIN r)

\* C9: for any sequence of counter recordings followed by a drain, the drain
\* yields exactly one counter record per distinct metric identity; in it every
\* distinct value recorded for the identity appears once in Values, in the
\* order of first observation, and Counts[i] is the number of times Values[i]
\* was recorded (equal lengths, Counts summing to the number of recordings).
C9_CounterRecords ==
    [][ DrainStep =>
          LET recs == OfKind(recorded, "metric")
              ids == Identities(recs)
              out == CounterRecords(metric_data')
          IN  /\ Len(out) = Len(ids)
              /\ \A i \in 1..Len(ids) :
                    LET vals == ValuesFor(recs, ids[i]) IN
                    /\ NamesIdentity(out[i], ids[i])
                    /\ out[i].Values = Distinct(vals)
                    /\ Len(out[i].Counts) = Len(out[i].Values)
                    /\ \A j \in 1..Len(out[i].Values) :
                          out[i].Counts[j] = Count(vals, out[i].Values[j])
                    /\ SumSeq(out[i].Counts) = Len(vals)
      ]_vars

\* the statistics the claim gives for the samples (n >= 1 of them)
StatisticsOf(vals) ==
    LET d == Distinct(vals) IN
    [SampleCount |-> Len(vals),
     Sum |-> SumSeq([j \in 1..Len(d) |-> d[j] * Count(vals, d[j])]),
     Minimum |-> CHOOSE m \in {vals[j] : j \in 1..Len(vals)} :
                    \A j \in 1..Len(vals) : m <= vals[j],
     Maximum |-> CHOOSE m \in {vals[j] : j \in 1..Len(vals)} :
                    \A j \in 1..Len(vals) : m >= vals[j]]

\* C10: for n >= 1 samples recorded through the statistic path for one metric
\* identity, the drained statistic record has SampleCount = n, Sum = the sum,
\* Minimum = the smallest and Maximum = the largest sample; a statistic series
\* with zero samples produces no record at all: the drained list holds one
\* statistic record per identity that has samples, and nothing else.
C10_StatisticRecords ==
    [][ DrainStep =>
          LET recs == OfKind(recorded, "statistic")
              ids == Identities(recs)
              out == StatisticRecords(metric_data')
          IN  /\ Len(out) = Len(ids)
              /\ Len(metric_data') = Len(CounterRecords(metric_data')) + Len(out)
              /\ \A i \in 1..Len(ids) :
                    \E j \in 1..Len(out) :
                        /\ NamesIdentity(out[j], ids[i])
                        /\ out[j].StatisticValues = StatisticsOf(ValuesFor(recs, ids[i]))
              /\ \A i \in 1..Len(statistics) :
                    Len(statistics[i].value) = 0 =>
                        \A j \in 1..Len(out) :
                            ~NamesIdentity(out[j], <<statistics[i].name,
                                                    statistics[i].dimensions>>)
      ]_vars

\* C10 witness: the samples 9, 5, 9 of the metric x with the dimension d=1 have
\* been drained into one record, the only one of the list: the series of x
\* without dimensions, which had no sample, gave none
C10_Witness ==
    /\ left.flushes = MaxStoreFlushes - 1
    /\ Len(metric_data) = 1
    /\ "Dimensions" \in DOMAIN metric_data[1]
    /\ metric_data[1].StatisticValues =
          [SampleCount |-> 3, Sum |-> 23, Minimum |-> 5, Maximum |-> 9]
\* C11: the fingerprint is deterministic and injective on metric identities:
\* two recordings of one identity get the same fingerprint, two recordings
\* whose names or dimension pair sequences differ in content or in order get
\* different fingerprints, and so the store holds one aggregation series per
\* identity recorded.
C11_FingerprintInjective ==
    LET recs == OfKind(recorded, "metric")
        id(r) == Metric_generate_id(r.name, r.dimensions)
    IN  /\ \A i, j \in 1..Len(recs) :
              (Identity(recs[i]) = Identity(recs[j])) <=> (id(recs[i]) = id(recs[j]))
        /\ Len(metrics) = Len(Identities(recs))
\* number of samples held by the statistic series of the name
SamplesOf(name) ==
    SumSeq([i \in 1..Len(statistics) |->
              IF statistics[i].name = name THEN Len(statistics[i].value) ELSE 0])

\* C12: a timed operation always results in one duration sample recorded in
\* the statistic aggregate under the operation name once the unit of work has
\* finished, also when it raised: whenever no wrapped call is in progress, the
\* samples held under the name are as many as the wrapped calls made.
C12_TimedOperationRecorded ==
    facade.task = "idle" => SamplesOf("transaction") = MaxTasks - left.tasks
\* a step in which a recording call is made on a facade without reporter
NoReporterStep == ~facade.reporter /\ left'.puts < left.puts

\* a step in which a well-formed recording call completes
WellFormedStep == RecordStep /\ Len(recorded') = Len(recorded) + 1

\* the series of the identity in a map of the store
SeriesFor(dict, id) ==
    SelectSeq(dict, LAMBDA series : <<series.name, series.dimensions>> = id)

\* the series of the other identities
SeriesNotFor(dict, id) ==
    SelectSeq(dict, LAMBDA series : <<series.name, series.dimensions>> # id)

\* how many times the value is held by the series of the identity (0 without series)
Held(kind, dict, id, value) ==
    LET found == SeriesFor(dict, id) IN
    IF Len(found) = 0 THEN 0
    ELSE IF kind = "metric"
         THEN LET i == KeyIndex(found[1].value, value)
              IN  IF i = 0 THEN 0 ELSE found[1].value[i][2]
         ELSE Count(found[1].value, value)

\* C13: a recording call through the facade without reporter returns False,
\* raises nothing and changes no state; a well-formed one with a reporter
\* returns True, adds exactly one observation to the series of its metric
\* identity, which it creates if missing, and changes no other series.
C13_FacadeRecording ==
    [][ /\ NoReporterStep =>
              /\ facade' = [facade EXCEPT !.returned = "False"]
              /\ UNCHANGED <<metrics, statistics, lock, stopped, timer, sleep_task, w,
                             metric_data, n, sent, sentBase, recorded, pc>>
        /\ WellFormedStep =>
              LET r == recorded'[Len(recorded')]
                  id == Identity(r)
                  before == IF r.kind = "metric" THEN metrics ELSE statistics
                  after == IF r.kind = "metric" THEN metrics' ELSE statistics'
              IN  /\ facade'.returned = "True"
                  /\ Len(SeriesFor(after, id)) = 1
                  /\ Held(r.kind, after, id, r.value) = Held(r.kind, before, id, r.value) + 1
                  /\ ObsInStore' = ObsInStore + 1
                  /\ SeriesNotFor(after, id) = SeriesNotFor(before, id)
                  /\ IF r.kind = "metric" THEN statistics' = statistics
                                           ELSE metrics' = metrics
      ]_vars

\* C13 witness: of three calls made, the two that were well-formed and found a
\* reporter have returned True, and each is held by a counter series of its own
C13_Witness ==
    /\ facade.returned = "True"
    /\ left.puts = MaxFacadeCalls - 3
    /\ Len(recorded) = 2
    /\ Len(metrics) = 2
    /\ ObsInStore = 2
\* a step in which a recording call that misses a required field ends: a
\* put_metric body that ends without having recorded, or a put_statistic call
\* that ends where it was made
MissingStep ==
    \/ RecordStep /\ recorded' = recorded
    \/ facade.reporter /\ pc.rec = "idle" /\ pc'.rec = "idle" /\ left'.puts < left.puts

\* C14: a recording call that misses a required field (the metric name or the
\* value) fails explicitly to its immediate caller: the call ends with an
\* error raised to the caller, never with a success indicator, and it records
\* no observation that a later reporting cycle would publish.
C14_MissingFieldRaises ==
    [][ MissingStep =>
          /\ facade'.returned \in {"KeyError", "TypeError"}
          /\ ObsInStore' = ObsInStore
          /\ lock' = lock
      ]_vars

\* C14 witness: a put_metric call without Value has raised KeyError to its
\* caller; the store holds no observation
C14_Witness ==
    /\ facade.returned = "KeyError"
    /\ Len(metrics) = 1
    /\ ObsInStore = 0
\* the Dimensions field the claim gives for dimension pairs: {Name, Value}
\* entries in insertion order
DimensionList(pairs) ==
    [k \in 1..Len(pairs) |-> [Name |-> pairs[k][1], Value |-> pairs[k][2]]]

\* the record is as the claim gives it for a metric recorded with these dimensions
DimensionsAsGiven(r, dimensions) ==
    IF Len(dimensions.pairs) = 0 THEN "Dimensions" \notin DOMAIN r
    ELSE "Dimensions" \in DOMAIN r /\ r.Dimensions = DimensionList(dimensions.pairs)

\* C15: no record handed to the transport carries an empty Dimensions list:
\* the field is omitted when the metric has no dimensions, and is the
\* non-empty list of {Name, Value} pairs in insertion order when it has: each
\* drained record is so for a recording of its name, and no batch sent holds a
\* record with an empty list.
C15_NoEmptyDimensions ==
    [][ /\ DrainStep =>
              \A j \in 1..Len(metric_data') :
                  \E i \in 1..Len(recorded) :
                      /\ recorded[i].name = metric_data'[j].MetricName
                      /\ DimensionsAsGiven(metric_data'[j], recorded[i].dimensions)
        /\ \A i \in 1..Len(sent') : \A j \in 1..Len(sent'[i].batch) :
              "Dimensions" \in DOMAIN sent'[i].batch[j]
                  => Len(sent'[i].batch[j].Dimensions) > 0
      ]_vars
\* recording calls that have completed
Completed == MaxPuts - left.puts - (IF pc.rec = "waiting" THEN 1 ELSE 0)

\* the record is the one of a single observation
RecordOfOne(r, obs) ==
    /\ NamesIdentity(r, Identity(obs))
    /\ IF obs.kind = "metric"
       THEN r.Values = <<obs.value>> /\ r.Counts = <<1>>
       ELSE r.StatisticValues = [SampleCount |-> 1, Sum |-> obs.value,
                                 Minimum |-> obs.value, Maximum |-> obs.value]

\* C16: with the periodic loop running and no flush() call, no transport call
\* happens before the first wait has elapsed; a cycle of the loop that finds
\* one recorded observation makes exactly one transport call, which carries
\* that observation's record; a record is not published again by later
\* cycles: the observations sent never exceed those recorded and not held.
C16_PublishOnceAfterWait ==
    [][ /\ (left.flushes = MaxFlushes /\ ~waited) => sent = <<>>
        /\ (DrainStep /\ lock' = "loop" /\ Len(recorded) = 1) =>
              /\ Len(metric_data') = 1
              /\ RecordOfOne(metric_data'[1], recorded[1])
        /\ (lock = "loop" /\ ObsInRecords(metric_data) = 1) =>
              /\ pc.loop = "send" => Len(CycleCalls) = 0
              /\ pc.loop \in {"sending", "done"} =>
                    /\ Len(CycleCalls) = 1
                    /\ CycleCalls[1].by = "loop"
                    /\ CycleCalls[1].batch = metric_data
        /\ ObsInRecords(Concat(sent)) + ObsInStore <= Completed
      ]_vars

\* C16 witness: no flush() was called; the observation recorded has been
\* published by the loop in one call, which returned 200, the store is empty
\* and the loop is in a later wait
C16_Witness ==
    /\ left.flushes = MaxFlushes
    /\ Completed = 1
    /\ Len(sent) = 1
    /\ sent[1].by = "loop" /\ sent[1].status = "ok"
    /\ ObsInRecords(sent[1].batch) = 1
    /\ ObsInStore = 0
    /\ lock = "free"
    /\ (pc.loop = "wait" \/ (pc.loop = "sleeping" /\ sleep_task = "pending"))
\* the interval is unset or zero
NoIntervalSet == ~report_interval.present \/ report_interval.seconds = 0

\* a step in which run() is called and starts no loop
RunStep == pc.loop = "idle" /\ pc'.loop = "idle" /\ left'.runs < left.runs

\* C17: with the interval unset or zero run() is a no-op: no periodic loop is
\* started and the reporter's state is unchanged; recording calls still
\* accumulate observations; the reporter makes no transport call on its own;
\* flush() publishes everything accumulated so far: it drains every
\* observation held, and when its calls have returned they carried the drained
\* records.
C17_NoIntervalNoLoop ==
    [][ NoIntervalSet =>
          /\ RunStep => UNCHANGED <<metrics, statistics, lock, stopped, timer, sleep_task,
                                    pc, w, metric_data, n, sent, sentBase, recorded>>
          /\ pc'.loop = "idle" /\ timer' = "none" /\ sleep_task' = "none"
          /\ RecordStep => ObsInStore' = ObsInStore + 1
          /\ \A i \in 1..Len(sent') : sent'[i].by = "flush"
          /\ DrainStep =>
                /\ ObsInRecords(metric_data') = ObsInStore
                /\ metrics' = <<>> /\ statistics' = <<>>
          /\ CycleComplete("flush")' => Concat(CycleCalls)' = metric_data'
      ]_vars

\* C17 witness: on a reporter with interval 0 run() was called, two
\* observations were recorded, and a flush() has published both; nothing is
\* left in the store
C17_Witness ==
    /\ report_interval = Seconds(0)
    /\ left.runs < MaxRuns
    /\ Len(sent) = 1
    /\ sent[1].by = "flush" /\ sent[1].status = "ok"
    /\ ObsInRecords(sent[1].batch) = 2
    /\ ObsInStore = 0
    /\ pc.flush = "idle"
\* a step in which a wait of the loop runs to its timeout
TimeoutStep ==
    \/ mode = "sync" /\ pc.loop = "wait" /\ pc'.loop = "assign" /\ ~w'
    \/ mode = "async" /\ sleep_task = "pending" /\ sleep_task' = "done"

\* C18: stop() is always safe and leaves the reporter stopped, whether it is
\* called before run() or when the wait it cancels is no longer the loop's
\* current wait; a reporter on which stop() was called performs no reporting
\* cycle from its loop afterwards.  Stated on steps: once stop() has
\* returned, the stopped flag stays set and no wait of the loop runs to its
\* timeout (which is what starts a cycle).
C18_StopIsFinal ==
    [][ StopReturned => (stopped' /\ ~TimeoutStep) ]_vars
\* both maps of the store are empty
StoreEmpty == metrics = <<>> /\ statistics = <<>>

\* a step of the loop from its emptiness test, reached after a wait that elapsed
LoopTestStep ==
    /\ pc'.loop # pc.loop
    /\ \/ mode = "sync" /\ pc.loop = "len_check"
       \/ mode = "async" /\ pc.loop = "sleeping" /\ sleep_task = "done"

\* C19: when a periodic wait has elapsed normally and both maps of the store
\* are empty, the loop skips the cycle: no transport call, no change of the
\* store, no lock taken, back to the head of the loop for its next wait;
\* likewise a flush() on an empty store drains nothing and makes no transport
\* call.
C19_EmptyStoreSkipsCycle ==
    [][ /\ (LoopTestStep /\ StoreEmpty) =>
              /\ sent' = sent
              /\ UNCHANGED <<metrics, statistics, lock, metric_data>>
              /\ pc'.loop = IF mode = "sync" THEN "new_timer" ELSE "top"
        /\ (DrainStep /\ lock' = "flush" /\ StoreEmpty) =>
              /\ metric_data' = <<>>
              /\ sent' = sent
              /\ pc'.flush = "done"
        /\ (lock = "flush" /\ metric_data = <<>>) => sent' = sent
      ]_vars

\* C19 witness: nothing was recorded, flushed or stopped; a wait of the loop
\* has elapsed, no transport call was made and the loop is in a wait again
C19_Witness ==
    /\ waited
    /\ WaitPending
    /\ sent = <<>>
    /\ StoreEmpty
    /\ left = [puts |-> MaxPuts, flushes |-> MaxFlushes, stops |-> MaxStops]
\* the smaller of two numbers
Min(a, b) == IF a <= b THEN a ELSE b

\* C20: in the record list drained by one cycle every counter record precedes
\* every statistic record, and within each kind the records are in the order
\* in which their series were created in the store (the order of the first
\* recording of each identity since the last drain); each batch of the cycle
\* is a slice of 20 consecutive records of that list, or its remainder.
C20_DrainOrder ==
    [][ /\ DrainStep =>
              LET cs == Identities(OfKind(recorded, "metric"))
                  ss == Identities(OfKind(recorded, "statistic"))
                  md == metric_data'
              IN  /\ Len(md) = Len(cs) + Len(ss)
                  /\ \A i \in 1..Len(cs) :
                        "Values" \in DOMAIN md[i] /\ NamesIdentity(md[i], cs[i])
                  /\ \A j \in 1..Len(ss) :
                        /\ "StatisticValues" \in DOMAIN md[Len(cs) + j]
                        /\ NamesIdentity(md[Len(cs) + j], ss[j])
        /\ Len(sent') = Len(sent) + 1 =>
              LET k == Len(sent') - sentBase IN
              sent'[Len(sent')].batch =
                  SubSeq(metric_data, (k - 1) * 20 + 1, Min(k * 20, Len(metric_data)))
      ]_vars

\* C20 witness: a drained list of two counter records followed by two
\* statistic records, the counter series with dimensions created first
C20_Witness ==
    /\ Len(metric_data) = 4
    /\ "Values" \in DOMAIN metric_data[1] /\ "Dimensions" \in DOMAIN metric_data[1]
    /\ "Values" \in DOMAIN metric_data[2] /\ "Dimensions" \notin DOMAIN metric_data[2]
    /\ "StatisticValues" \in DOMAIN metric_data[3]
    /\ "StatisticValues" \in DOMAIN metric_data[4]
\* C21: the duration a timed operation records is the elapsed time of the unit
\* of work in whole microseconds, for every elapsed time, those of one second
\* or more included: the value monitor() hands to put_statistic is the elapsed
\* time, and so is every sample the series of the operation name holds.
C21_DurationIsElapsed ==
    /\ facade.task = "put_statistic" => facade.value = facade.elapsed
    /\ \A i \in 1..Len(statistics) :
          statistics[i].name = "transaction" =>
              \A k \in 1..Len(statistics[i].value) :
                  statistics[i].value[k] \in ElapsedTimes
\* C22: for timed operations that do not overlap, an operation starts with no
\* dimensions of an earlier one in the ambient slot, its duration is recorded
\* under exactly the dimensions set with with_monitored_dimension during it,
\* and after it has finished the ambient slot holds the value it had before
\* the operation started (here None, the slot being set by operations only).
C22_DimensionsScoped ==
    [][ /\ (facade.task = "idle" /\ facade'.task = "func") =>
              facade'.dimensions = NoDimensions
        /\ (facade.task = "put_statistic" /\ Len(recorded') = Len(recorded) + 1) =>
              /\ recorded'[Len(recorded')].name = "transaction"
              /\ recorded'[Len(recorded')].dimensions = facade.dimensions
        /\ facade'.task = "idle" => facade'.dimensions = NoDimensions
      ]_vars
\* the identities recorded in Spec
SpecIdentities == {<<name, NoDimensions>> : name \in Names}

\* observations of the identity the records of the kind account for
ObsInRecordsFor(kind, id, data) ==
    SumSeq([i \in 1..Len(data) |->
              IF ~NamesIdentity(data[i], id) THEN 0
              ELSE IF kind = "metric" /\ "Values" \in DOMAIN data[i]
                   THEN SumSeq(data[i].Counts)
              ELSE IF kind = "statistic" /\ "StatisticValues" \in DOMAIN data[i]
                   THEN data[i].StatisticValues.SampleCount
              ELSE 0])

\* observations of the identity held by the series of the kind in the store
ObsInStoreFor(kind, id) ==
    IF kind = "metric"
    THEN SumSeq([i \in 1..Len(metrics) |->
                   IF Identity(metrics[i]) # id THEN 0
                   ELSE SumSeq([j \in 1..Len(metrics[i].value) |-> metrics[i].value[j][2]])])
    ELSE SumSeq([i \in 1..Len(statistics) |->
                   IF Identity(statistics[i]) # id THEN 0
                   ELSE Len(statistics[i].value)])

\* the records a running cycle has drained and not yet handed to the transport
NotYetHanded ==
    IF lock = "free" THEN <<>>
    ELSE SubSeq(metric_data, Len(Concat(CycleCalls)) + 1, Len(metric_data))

\* observations of the identity handed to the transport, about to be handed, or held
Accounted(kind, id) ==
    ObsInRecordsFor(kind, id, Concat(sent))
    + ObsInRecordsFor(kind, id, NotYetHanded)
    + ObsInStoreFor(kind, id)

\* no transport call has raised
TransportReturned == \A i \in 1..Len(sent) : sent[i].status # "raise"

\* no recording call, flush() or cycle is in progress
Quiescent == lock = "free" /\ pc.rec = "idle" /\ pc.flush \in {"idle", "done"}

\* C23: under any interleaving of recording calls, flush() calls and cycles of
\* the loop, with the transport always returning, no observation is lost or
\* duplicated: for each identity the observations handed to the transport, or
\* drained and about to be handed, plus those held in the store grow by one
\* exactly when a recording of that identity completes and never change
\* otherwise; at every quiescent point the observations in the records handed
\* to the transport plus those held equal the completed recording calls.
C23_NoObservationLostOrDuplicated ==
    [][ TransportReturned' =>
          /\ \A kind \in {"metric", "statistic"}, id \in SpecIdentities :
                Accounted(kind, id)' = Accounted(kind, id) +
                    (IF /\ RecordStep
                        /\ recorded'[Len(recorded')].kind = kind
                        /\ Identity(recorded'[Len(recorded')]) = id
                     THEN 1 ELSE 0)
          /\ Quiescent' =>
                ObsInRecords(Concat(sent'))  + ObsInStore' = Completed'
      ]_vars

\* C23 witness: two recordings have completed, a flush() and a cycle of the
\* loop have each handed one of them to the transport, which returned, and
\* the store is empty
C23_Witness ==
    /\ Quiescent /\ TransportReturned
    /\ Completed = 2
    /\ Len(sent) = 2
    /\ sent[1].by # sent[2].by
    /\ ObsInRecords(sent[1].batch) = 1 /\ ObsInRecords(sent[2].batch) = 1
    /\ ObsInStore = 0
\* C24: a recording call that fails (raises to its caller, for example because
\* the value is missing) leaves the store exactly as it was before the call:
\* it creates no series, so every counter series in the store holds at least
\* one observation, and every counter record handed to the transport has
\* non-empty Values and Counts with every count at least 1.
C24_FailedCallLeavesStore ==
    [][ /\ MissingStep => UNCHANGED <<metrics, statistics>>
        /\ \A i \in 1..Len(metrics') : Len(metrics'[i].value) >= 1
        /\ \A i \in 1..Len(sent') : \A j \in 1..Len(sent'[i].batch) :
              LET r == sent'[i].batch[j] IN
              "Values" \in DOMAIN r =>
                  /\ Len(r.Values) >= 1
                  /\ Len(r.Counts) = Len(r.Values)
                  /\ \A k \in 1..Len(r.Counts) : r.Counts[k] >= 1
      ]_vars
\* C25: every batch a reporter hands to the transport is published under the
\* namespace configured on the facade in use (CloudWatchSyncMetrics for the
\* blocking reporter, CloudWatchAsyncMetrics for the non-blocking one): once
\* that facade's namespace is set, a transport call carries it as Namespace,
\* never an unset one.
C25_NamespaceOfFacadeInUse ==
    [][ Len(sent') = Len(sent) + 1 =>
          LET configured == GetNamespace(facade.namespace, FacadeClass(mode)) IN
          configured # None => sent'[Len(sent')].Namespace = configured
      ]_vars
\* a step in which who leaves _report
LeavesReport(who) == pc[who] \in {"sending", "done"} /\ pc'[who] \notin {"send", "sending", "done"}

\* C26: the store's lock is released at the end of every reporting cycle and
\* every recording call, whether it ended normally, with a non-success
\* transport status, or with an error raised by the transport or by the call
\* itself; the lock is held only by a caller inside its cycle; and, every
\* transport call returning or raising, every recording call and every
\* flush() call eventually gets the lock and completes.
C26_LockReleased ==
    /\ [][ /\ RecordStep => lock' = "free"
           /\ \A who \in Callers : LeavesReport(who) => lock' = "free"
           /\ lock' # "free" => pc'[lock'] \in {"send", "sending", "done"}
         ]_vars
    /\ (pc.rec = "waiting") ~> (pc.rec = "idle")
    /\ (pc.flush # "idle") ~> (pc.flush = "idle" /\ lock # "flush")

\* C26 witness: a recording call ended with KeyError, the transport call of
\* the flush() after it raised, and a recording call made after that has
\* completed; the lock is free
C26_Witness ==
    /\ \E i \in 1..Len(sent) :
          /\ sent[i].by = "flush" /\ sent[i].status = "raise"
          /\ "Values" \in DOMAIN sent[i].batch[1]
          /\ sent[i].batch[1].Values = <<>>
    /\ lock = "free" /\ pc.rec = "idle" /\ pc.flush = "idle"
    /\ left.puts = 0
    /\ Len(recorded) = 1
=============================================================================
